---- MODULE Spec2Model ----
(***************************************************************************)
(* Model of the riemannian-nlp manifold layer and rank-margin loss.        *)
(*                                                                         *)
(* Numbers.  Loss-side distances are fixed-point integers in units of 0.01 *)
(* extended with the three IEEE specials (NaN, +inf, -inf); the reduction  *)
(* (mean over the batch) is an exact fraction.  Sphere-side coordinates    *)
(* are exact rationals n / d; angles are fixed-point milliradians.         *)
(***************************************************************************)
EXTENDS Integers, Sequences, FiniteSets, TLC

VARIABLES
    pc,                  \* position of the call being modelled
    manifold_dists,      \* [b, k] output of manifold.dist (line 44)
    train_distances,     \* [b', k'] ground-truth distances of the batch
    margin,              \* margin argument
    scale_function,      \* injected rescaling policy
    sorted_indices,      \* result of train_distances.argsort(dim=-1)
    masked_diff_matrix,  \* [b, k, k] matrix that is reduced (line 82)
    loss,                \* returned value, or the raised error
    x,                   \* [n, d] point storage handed to the manifold
    x_before,            \* value of the storage when the last call began
    u,                   \* tangent argument of the last retr / retr_
    indices,             \* indices argument of the last call (None or rows)
    ret,                 \* value returned by the last manifold call
    op,                  \* name of the last manifold call
    dist_x, dist_y,      \* arguments of SphericalManifold.dist
    dist_ret,            \* value returned by SphericalManifold.dist
    acos_x,              \* input of GradClippedACos.forward
    acos_saved,          \* ctx.saved_tensors of GradClippedACos
    acos_ret,            \* value returned by GradClippedACos.forward
    grad_output,         \* gradient handed to GradClippedACos.backward
    acos_grad,           \* value returned by GradClippedACos.backward
    pd_matrix,           \* batch of matrices handed to closest_pd_matrix
    pd_ret,              \* value returned by closest_pd_matrix
    matrix_a, matrix_b,  \* batches handed to riemannian_divergence
    div_ret,             \* value returned by riemannian_divergence
    div_loss,            \* its batch mean, the isometric metric loss
    call,                \* the function whose statements are being executed
    at,                  \* index of its next statement
    env,                 \* local name -> storage it refers to (0: unbound)
    versions,            \* storage -> number of in-place writes it received
    written,             \* storages an in-place operation has acted on
    proj_eigenval,       \* [b, d] eigenvalues of the tangent projection
    out_dimension,       \* dimension of the model output
    isometric,           \* mode of metric_loss
    flattened,           \* per-sample sizes of the two flattened matrices
    metric_status,       \* how metric_loss ended
    discount_factor,     \* argument of manifold_dist_loss_relu_sum
    total_n_nodes,       \* argument of retrieve_nodes
    block_size,          \* sampling_config.manifold_neighbor_block_size
    num_blocks,          \* ceil(total_n_nodes / block_size)
    block_i,             \* loop index i of retrieve_nodes
    requested,           \* the ranges [start, end) handed to embed_nodes
    out_blocks,          \* the embedded blocks, in the order appended
    retrieved            \* value out returned by retrieve_nodes, or its error

lossVars == <<manifold_dists, train_distances, margin, scale_function,
              sorted_indices, masked_diff_matrix, loss>>
sphereVars == <<x, x_before, u, indices, ret, op>>
distVars == <<dist_x, dist_y, dist_ret>>
acosVars == <<acos_x, acos_saved, acos_ret, grad_output, acos_grad>>
pdVars == <<pd_matrix, pd_ret>>
divVars == <<matrix_a, matrix_b, div_ret, div_loss>>
frameVars == <<call, at, env, versions, written>>
metricVars == <<proj_eigenval, out_dimension, isometric, flattened,
                metric_status>>
retrieveVars ==
    <<total_n_nodes, block_size, num_blocks, block_i, requested, out_blocks,
      retrieved>>
otherVars ==
    <<acosVars, pdVars, divVars, frameVars, metricVars, discount_factor,
      retrieveVars>>
\* what an operation of one group leaves alone
exceptAcos ==
    <<lossVars, sphereVars, distVars, pdVars, divVars, frameVars, metricVars,
      discount_factor, retrieveVars>>
exceptPd ==
    <<lossVars, sphereVars, distVars, acosVars, divVars, frameVars, metricVars,
      discount_factor, retrieveVars>>
exceptDiv ==
    <<lossVars, sphereVars, distVars, acosVars, pdVars, frameVars, metricVars,
      discount_factor, retrieveVars>>
exceptMetric ==
    <<lossVars, sphereVars, distVars, acosVars, pdVars, divVars, frameVars,
      discount_factor, retrieveVars>>
exceptRetrieve ==
    <<lossVars, sphereVars, distVars, acosVars, pdVars, divVars, frameVars,
      metricVars, discount_factor>>
exceptFrame ==
    <<lossVars, sphereVars, distVars, acosVars, pdVars, divVars, metricVars,
      discount_factor, retrieveVars>>

(***************************************************************************)
(* Extended fixed-point values: finite, NaN, +inf, -inf.                   *)
(***************************************************************************)
Fin(n) == [k |-> "fin", v |-> n]
NaN == [k |-> "nan", v |-> 0]
PosInf == [k |-> "inf", v |-> 1]
NegInf == [k |-> "inf", v |-> -1]

IsNan(a) == a.k = "nan"
IsInf(a) == a.k = "inf"
IsFin(a) == a.k = "fin"

ExtNeg(a) ==
    IF IsNan(a) THEN NaN
    ELSE IF IsInf(a) THEN [k |-> "inf", v |-> -(a.v)]
    ELSE Fin(-(a.v))

ExtAdd(a, b) ==
    IF IsNan(a) \/ IsNan(b) THEN NaN
    ELSE IF IsInf(a) /\ IsInf(b) THEN (IF a.v = b.v THEN a ELSE NaN)
    ELSE IF IsInf(a) THEN a
    ELSE IF IsInf(b) THEN b
    ELSE Fin(a.v + b.v)

ExtSub(a, b) == ExtAdd(a, ExtNeg(b))

\* the comparison `t == 0` of line 73: false for NaN and for infinities
ExtIsZero(a) == IsFin(a) /\ a.v = 0

relu_missing(a) == a

\* torch.nn.functional.relu: max(x, 0), NaN stays NaN
relu(a) ==
    IF IsNan(a) THEN NaN
    ELSE IF IsInf(a) THEN (IF a.v > 0 THEN PosInf ELSE Fin(0))
    ELSE IF a.v > 0 THEN a ELSE Fin(0)

(***************************************************************************)
(* Bounds of the explored input space.                                     *)
(***************************************************************************)
MaxNeighbors == 3
MaxBatch == 2
MaxBatchCells == 4

\* manifold distances (units of 0.01) and ground-truth graph distances
DistVals == {Fin(5), Fin(10), Fin(40)}
BatchDistVals == {Fin(5), Fin(10)}
SpecialDistVals == {Fin(0), Fin(10), NaN, PosInf}
BatchSpecialDistVals == {Fin(0), NaN, PosInf}
TrainVals == {1, 2, 3}
BatchTrainVals == {1, 2}
Margins == {0, 1, 6}
SpecialMargins == {1}
ScaleFunctions == {"identity", "log"}

(***************************************************************************)
(* Natural logarithm in fixed point: LnFP(d) = floor(100 * ln(d / 100)).   *)
(* The argument is brought into [1, 2) by doubling or halving, then        *)
(* ln(m) = 2 * atanh((m - 1) / (m + 1)) is summed to the z^5 term at a     *)
(* scale of 1e-4.                                                          *)
(***************************************************************************)
Ln2FP == 6931

RECURSIVE LnNorm(_, _, _)
LnNorm(num, den, shift) ==
    IF num < den THEN LnNorm(2 * num, den, shift - 1)
    ELSE IF num >= 2 * den THEN LnNorm(num, 2 * den, shift + 1)
    ELSE <<num, den, shift>>

LnFP(d) ==
    LET n == LnNorm(d, 100, 0)
        z == ((n[1] - n[2]) * 10000) \div (n[1] + n[2])
        z2 == (z * z) \div 10000
        z3 == (z2 * z) \div 10000
        z5 == (z3 * z2) \div 10000
        series == 2 * (z + z3 \div 3 + z5 \div 5)
    IN  (series + n[3] * Ln2FP) \div 100

\* torch.log on an extended value
ExtLog(a) ==
    IF IsNan(a) THEN NaN
    ELSE IF IsInf(a) THEN (IF a.v > 0 THEN PosInf ELSE NaN)
    ELSE IF a.v < 0 THEN NaN
    ELSE IF a.v = 0 THEN NegInf
    ELSE Fin(LnFP(a.v))

ApplyScale(f, a) == IF f = "log" THEN ExtLog(a) ELSE a

(***************************************************************************)
(* Tensor helpers.  A [b, k] tensor is a sequence of b rows of length k.   *)
(***************************************************************************)
Rows(t) == Len(t)
Cols(t) == Len(t[1])

Perms(n) == {p \in [1..n -> 1..n] : \A i, j \in 1..n : i # j => p[i] # p[j]}

\* every ascending order of one row; ties may be placed either way
ArgSortRow(row) ==
    {p \in Perms(Len(row)) :
        \A i \in 1..(Len(row) - 1) : row[p[i]] <= row[p[i + 1]]}

\* train_distances.argsort(dim=-1): one ascending order per row
ArgSort(t) ==
    LET orders == [r \in 1..Rows(t) |-> ArgSortRow(t[r])]
        any == UNION {orders[r] : r \in 1..Rows(t)}
    IN  {s \in [1..Rows(t) -> any] : \A r \in 1..Rows(t) : s[r] \in orders[r]}

\* torch.gather(input, -1, index): index may have fewer rows than input,
\* and every index must address a column of input
GatherOK(input, index) ==
    /\ Rows(index) <= Rows(input)
    /\ \A r \in 1..Rows(index) : \A j \in 1..Cols(index) :
          index[r][j] \in 1..Cols(input)

Gather(input, index) ==
    [r \in 1..Rows(index) |-> [j \in 1..Cols(index) |-> input[r][index[r][j]]]]

\* Tensor.expand: a dimension is either equal to the target or of size one
ExpandOK(t, b, k) ==
    /\ Rows(t) = b \/ Rows(t) = 1
    /\ Cols(t) = k \/ Cols(t) = 1

\* position read by an expanded tensor along a dimension of size n
Bc(i, n) == IF n = 1 THEN 1 ELSE i

RECURSIVE SumSeq(_, _)
SumSeq(s, n) == IF n = 0 THEN Fin(0) ELSE ExtAdd(SumSeq(s, n - 1), s[n])

RECURSIVE Gcd(_, _)
Gcd(a, b) == IF b = 0 THEN a ELSE Gcd(b, a % b)

Abs(a) == IF a < 0 THEN -a ELSE a

\* Tensor.mean() of b extended values, as an exact fraction
Mean(s, b) ==
    LET total == SumSeq(s, b)
    IN  IF ~IsFin(total) THEN [k |-> total.k, num |-> total.v, den |-> 1]
        ELSE LET g == Gcd(Abs(total.v), b)
             IN  [k |-> "fin", num |-> total.v \div g, den |-> b \div g]

(***************************************************************************)
(* graph_manifold_margin_loss, statement by statement.  Each operator      *)
(* gives one entry of the tensor its statement produces.                   *)
(***************************************************************************)
\* lines 52-53: gather by the sort order, then rescale; entry [r, j] of a
\* tensor that has the shape of the index tensor
ManifoldDistsSorted(md, si, f, r, j) == ApplyScale(f, md[r][si[r][j]])

\* lines 56-57: unsqueeze(2).expand(b, k, k), entry [i, j, l] is sorted[i, j]
RowExpanded(md, si, f, i, j, l) ==
    ManifoldDistsSorted(md, si, f, Bc(i, Rows(si)), Bc(j, Cols(si)))

\* lines 58-59: unsqueeze(1).expand(b, k, k), entry [i, j, l] is sorted[i, l]
ColumnExpanded(md, si, f, i, j, l) ==
    ManifoldDistsSorted(md, si, f, Bc(i, Rows(si)), Bc(l, Cols(si)))

DiffMatrix_swapped(md, si, m, f, i, j, l) ==
    ExtAdd(ExtSub(ColumnExpanded(md, si, f, i, j, l),
                  RowExpanded(md, si, f, i, j, l)), Fin(m))

\* line 64: entry [i, j, l] is d_j - d_l + margin
DiffMatrix(md, si, m, f, i, j, l) ==
    ExtAdd(ExtSub(RowExpanded(md, si, f, i, j, l),
                  ColumnExpanded(md, si, f, i, j, l)), Fin(m))

\* line 66
TrainDistsSorted(td, si, r, j) == Fin(td[r][si[r][j]])

\* lines 67-71: the same difference over the sorted ground-truth distances
DiffMatrixTrain(td, si, i, j, l) ==
    ExtSub(TrainDistsSorted(td, si, Bc(i, Rows(si)), Bc(j, Cols(si))),
           TrainDistsSorted(td, si, Bc(i, Rows(si)), Bc(l, Cols(si))))

Where_unmasked(dt, d) == d

\* lines 73-74: torch.where(diff_matrix_train == 0, diff_matrix_train, diff_matrix)
Where(dt, d) == IF ExtIsZero(dt) THEN dt ELSE d

Triu_lower(j, l, a) == IF l <= j THEN a ELSE Fin(0)

\* line 75: Tensor.triu() keeps the diagonal and what lies above it
Triu(j, l, a) == IF l >= j THEN a ELSE Fin(0)

\* lines 81-82: NaN and infinite entries are overwritten with zero
ZeroNan(a) == IF IsNan(a) THEN Fin(0) ELSE a

ZeroInf_missing(a) == a

ZeroInf(a) == IF IsInf(a) THEN Fin(0) ELSE a

\* lines 73-74: entry [i, j, l] after the ties are masked
WhereMatrix(md, td, si, m, f, i, j, l) ==
    Where(DiffMatrixTrain(td, si, i, j, l), DiffMatrix(md, si, m, f, i, j, l))

\* lines 75-76: triu, then relu
ReluMatrix(md, td, si, m, f, i, j, l) ==
    relu(Triu(j, l, WhereMatrix(md, td, si, m, f, i, j, l)))

\* lines 79-82: the [b, k, k] tensor that is reduced
MaskedDiffMatrix(md, td, si, m, f) ==
    [i \in 1..Rows(md) |-> [j \in 1..Cols(md) |-> [l \in 1..Cols(md) |->
        ZeroInf(ZeroNan(ReluMatrix(md, td, si, m, f, i, j, l)))]]]

\* line 83: masked_diff_matrix.sum(dim=-1).sum(dim=-1).mean()
Reduce(mm, b, k) ==
    LET inner == [i \in 1..b |-> [j \in 1..k |-> SumSeq(mm[i][j], k)]]
        outer == [i \in 1..b |-> SumSeq(inner[i], k)]
    IN  Mean(outer, b)

\* the gather of line 52 and the expands of lines 56-59 and 67-70 are the
\* only places that look at the two shapes together
ShapesAccepted(md, si) ==
    /\ GatherOK(md, si)
    /\ ExpandOK(si, Rows(md), Cols(md))

NoMatrix == <<>>

Raised == [status |-> "shape_error", num |-> 0, den |-> 1, k |-> "fin"]

\* the value returned for a given result of argsort, or the error raised
graph_manifold_margin_loss(md, td, si, m, f) ==
    IF ~ShapesAccepted(md, si) THEN Raised
    ELSE LET l == Reduce(MaskedDiffMatrix(md, td, si, m, f), Rows(md), Cols(md))
         IN  [status |-> "ok", num |-> l.num, den |-> l.den, k |-> l.k]

ComputeLoss ==
    /\ pc = "start"
    /\ \E si \in ArgSort(train_distances) :
          /\ sorted_indices' = si
          /\ masked_diff_matrix' =
                IF ShapesAccepted(manifold_dists, si)
                THEN MaskedDiffMatrix(manifold_dists, train_distances, si,
                                      margin, scale_function)
                ELSE NoMatrix
          /\ loss' = graph_manifold_margin_loss(manifold_dists, train_distances,
                                                si, margin, scale_function)
    /\ pc' = "done"
    /\ UNCHANGED <<manifold_dists, train_distances, margin, scale_function>>
    /\ UNCHANGED <<sphereVars, distVars, otherVars>>

(***************************************************************************)
(* Inputs of the loss.                                                     *)
(***************************************************************************)
Tensors(b, k, V) == [1..b -> [1..k -> V]]

NotCalled == [status |-> "none", num |-> 0, den |-> 1, k |-> "fin"]

\* GradClippedACos has not been applied
AcosUnused ==
    /\ acos_x = [k |-> "fin", n |-> 0, d |-> 1] /\ acos_saved = <<>>
    /\ acos_ret = Fin(0) /\ grad_output = Fin(0) /\ acos_grad = Fin(0)

\* closest_pd_matrix has not been called
PdUnused == pd_matrix = <<>> /\ pd_ret = <<>>

\* riemannian_divergence has not been called
DivUnused ==
    /\ matrix_a = <<>> /\ matrix_b = <<>> /\ div_ret = <<>>
    /\ div_loss = [k |-> "fin", num |-> 0, den |-> 1]

\* no statement-level run is modelled
FrameUnused ==
    /\ call = "none" /\ at = 0 /\ env = <<>> /\ versions = <<>>
    /\ written = {}

\* metric_loss has not been called
MetricUnused ==
    /\ proj_eigenval = <<>> /\ out_dimension = 0 /\ isometric = FALSE
    /\ flattened = <<>> /\ metric_status = "none"

\* manifold_dist_loss_relu_sum has not been called
DiscountUnused == discount_factor = [k |-> "fin", n |-> 1, d |-> 1]

\* retrieve_nodes has not been called
RetrieveUnused ==
    /\ total_n_nodes = 0 /\ block_size = 1 /\ num_blocks = 0 /\ block_i = 0
    /\ requested = <<>> /\ out_blocks = <<>>
    /\ retrieved = [status |-> "none", rows |-> <<>>]

OtherIdle ==
    /\ AcosUnused /\ PdUnused /\ DivUnused /\ FrameUnused /\ MetricUnused
    /\ DiscountUnused /\ RetrieveUnused

\* a loss is about to be evaluated
LossStart ==
    /\ pc = "start"
    /\ sorted_indices = <<>>
    /\ masked_diff_matrix = NoMatrix
    /\ loss = NotCalled
    /\ x = <<>> /\ x_before = <<>> /\ u = <<>> /\ indices = <<>>
    /\ ret = <<>> /\ op = "none"
    /\ dist_x = <<>> /\ dist_y = <<>> /\ dist_ret = Fin(0)

LossIdle == OtherIdle /\ LossStart

\* shapes [b, k] of the explored tensors
Shapes ==
    {<<1, k>> : k \in 1..MaxNeighbors}
        \cup {sh \in (2..MaxBatch) \X (1..MaxBatchCells) :
                 sh[1] * sh[2] <= MaxBatchCells}

\* well-formed batches of finite distances
InitLoss ==
    /\ LossIdle
    /\ margin \in Margins
    /\ scale_function = "identity"
    /\ \/ \E k \in 1..MaxNeighbors :
             /\ manifold_dists \in Tensors(1, k, DistVals)
             /\ train_distances \in Tensors(1, k, TrainVals)
       \/ \E b \in 2..MaxBatch : \E k \in 1..(MaxBatchCells \div b) :
             /\ manifold_dists \in Tensors(b, k, BatchDistVals)
             /\ train_distances \in Tensors(b, k, BatchTrainVals)

\* well-formed batches whose manifold distances may be zero, NaN or infinite
InitSpecial ==
    /\ LossIdle
    /\ margin \in SpecialMargins
    /\ scale_function \in ScaleFunctions
    /\ \/ \E k \in 1..MaxNeighbors :
             /\ manifold_dists \in Tensors(1, k, SpecialDistVals)
             /\ train_distances \in Tensors(1, k, BatchTrainVals)
       \/ \E b \in 2..MaxBatch : \E k \in 1..(MaxBatchCells \div b) :
             /\ manifold_dists \in Tensors(b, k, BatchSpecialDistVals)
             /\ train_distances \in Tensors(b, k, BatchTrainVals)

\* batches whose two tensors need not have the same shape
InitShape ==
    /\ LossIdle
    /\ margin = 1
    /\ scale_function = "identity"
    /\ \E sh \in Shapes : manifold_dists \in Tensors(sh[1], sh[2], BatchDistVals)
    /\ \E sh \in Shapes : train_distances \in Tensors(sh[1], sh[2], BatchTrainVals)

(***************************************************************************)
(* Exact rational scalars for the sphere: [k, n, d] with d > 0 and n / d   *)
(* in lowest terms, or NaN.  A division by zero only ever happens as 0 / 0 *)
(* (a row of norm zero has only zero components), which is NaN.            *)
(***************************************************************************)
R(n, d) ==
    LET g == Gcd(Abs(n), Abs(d))
        sg == IF d < 0 THEN -1 ELSE 1
    IN  [k |-> "fin", n |-> (sg * n) \div g, d |-> (sg * d) \div g]

RNaN == [k |-> "nan", n |-> 0, d |-> 1]

RAdd(a, b) ==
    IF IsNan(a) \/ IsNan(b) THEN RNaN ELSE R(a.n * b.d + b.n * a.d, a.d * b.d)

RMul(a, b) ==
    IF IsNan(a) \/ IsNan(b) THEN RNaN ELSE R(a.n * b.n, a.d * b.d)

RDiv(a, b) ==
    IF IsNan(a) \/ IsNan(b) \/ b.n = 0 THEN RNaN ELSE R(a.n * b.d, a.d * b.n)

RLeq(a, b) == a.n * b.d <= b.n * a.d

\* the greatest r in lo .. hi - 1 with r * r <= n, by bisection
RECURSIVE SqrtBetween(_, _, _)
SqrtBetween(n, lo, hi) ==
    IF hi - lo <= 1 THEN lo
    ELSE LET mid == (lo + hi) \div 2
         IN  IF mid * mid <= n THEN SqrtBetween(n, mid, hi)
             ELSE SqrtBetween(n, lo, mid)

\* roots stay below the square root of the largest machine integer
MaxRoot == 46341

\* the least r with r * r >= n
ISqrt(n) ==
    LET f == SqrtBetween(n, 0, MaxRoot) IN IF f * f = n THEN f ELSE f + 1
IsSquare(n) == ISqrt(n) * ISqrt(n) = n

\* square root of a rational that is the square of a rational
RSqrt(a) == IF IsNan(a) THEN RNaN ELSE R(ISqrt(a.n), ISqrt(a.d))

RECURSIVE RSum(_, _)
RSum(s, n) == IF n = 0 THEN R(0, 1) ELSE RAdd(RSum(s, n - 1), s[n])

\* (a * b).sum(-1)
Inner(a, b) == RSum([i \in 1..Len(a) |-> RMul(a[i], b[i])], Len(a))

\* v.norm(dim=-1)
Norm(v) == RSqrt(Inner(v, v))

\* the norm of v is a rational number
ExactNorm(v) ==
    LET q == Inner(v, v) IN IsNan(q) \/ (IsSquare(q.n) /\ IsSquare(q.d))

VecAdd(a, b) == [i \in 1..Len(a) |-> RAdd(a[i], b[i])]
VecDiv(a, c) == [i \in 1..Len(a) |-> RDiv(a[i], c)]

(***************************************************************************)
(* SphericalManifold: proj, proj_, retr, retr_.                            *)
(***************************************************************************)
None == <<>>

\* position of row r in the index sequence, 0 when r is not selected
RECURSIVE PosIn(_, _, _)
PosIn(idx, r, n) ==
    IF n = 0 THEN 0 ELSE IF idx[n] = r THEN n ELSE PosIn(idx, r, n - 1)

Selected(idx, r) == PosIn(idx, r, Len(idx)) # 0

\* x[indices] /= x[indices].norm(dim=-1, keepdim=True)
NormaliseRows(t, idx) ==
    [r \in 1..Len(t) |->
        IF Selected(idx, r) THEN VecDiv(t[r], Norm(t[r])) ELSE t[r]]

\* x / x.norm(dim=-1, keepdim=True)
NormaliseAll(t) == [r \in 1..Len(t) |-> VecDiv(t[r], Norm(t[r]))]

\* lines 34-41: with indices the projected clone is built and dropped, and
\* the method falls off its end
proj(t, idx) ==
    IF idx # None THEN None ELSE NormaliseAll(t)

proj__squared_norm(t, idx) ==
    IF idx # None
    THEN [r \in 1..Len(t) |->
            IF Selected(idx, r) THEN VecDiv(t[r], Inner(t[r], t[r])) ELSE t[r]]
    ELSE [r \in 1..Len(t) |-> VecDiv(t[r], Inner(t[r], t[r]))]

\* lines 43-50: the storage after the call, which is also what is returned
proj_(t, idx) ==
    IF idx # None THEN NormaliseRows(t, idx) ELSE NormaliseAll(t)

\* x.index_add(0, indices, u)
IndexAdd(t, idx, uu) ==
    [r \in 1..Len(t) |->
        IF Selected(idx, r) THEN VecAdd(t[r], uu[PosIn(idx, r, Len(idx))])
        ELSE t[r]]

TensorAdd(t, uu) == [r \in 1..Len(t) |-> VecAdd(t[r], uu[r])]

\* lines 53-56 and 60-63
Moved(t, uu, idx) ==
    IF idx # None THEN IndexAdd(t, idx, uu) ELSE TensorAdd(t, uu)

\* lines 52-57
retr(t, uu, idx) == proj(Moved(t, uu, idx), idx)

\* lines 59-64: the storage after the call, which is also what is returned
retr_(t, uu, idx) == proj_(Moved(t, uu, idx), idx)

MaxPoints == 2

V2(a, b) == <<a, b>>
AmbientPoints ==
    {V2(R(1, 1), R(0, 1)), V2(R(0, 1), R(1, 1)), V2(R(3, 5), R(4, 5)),
     V2(R(3, 1), R(4, 1)), V2(R(0, 1), R(0, 1)), V2(R(-1, 1), R(0, 1))}
Tangents ==
    {V2(R(0, 1), R(3, 4)), V2(R(-3, 5), R(9, 20)), V2(R(-1, 1), R(0, 1)),
     V2(R(0, 1), R(0, 1))}

\* ascending sequences of distinct rows of an n-row tensor
IndexSeqs(n) ==
    {s \in UNION {[1..m -> 1..n] : m \in 1..n} :
        \A i \in 1..(Len(s) - 1) : s[i] < s[i + 1]}

IndexArgs(n) == {None} \cup IndexSeqs(n)

\* u has one row per selected row, or one per row of x without indices
TangentArgs(n, idx) ==
    [1..(IF idx = None THEN n ELSE Len(idx)) -> Tangents]

RowsExact(t) == \A r \in 1..Len(t) : ExactNorm(t[r])

Proj ==
    /\ op = "none"
    /\ \E idx \in IndexArgs(Len(x)) :
          /\ RowsExact(x)
          /\ ret' = proj(x, idx)
          /\ indices' = idx
    /\ op' = "proj" /\ u' = None /\ x_before' = x
    /\ UNCHANGED <<x, pc, lossVars, distVars, otherVars>>

ProjInplace ==
    /\ op = "none"
    /\ \E idx \in IndexArgs(Len(x)) :
          /\ RowsExact(x)
          /\ x' = proj_(x, idx)
          /\ ret' = x'
          /\ indices' = idx
    /\ op' = "proj_" /\ u' = None /\ x_before' = x
    /\ UNCHANGED <<pc, lossVars, distVars, otherVars>>

Retr ==
    /\ op = "none"
    /\ \E idx \in IndexArgs(Len(x)) : \E uu \in TangentArgs(Len(x), idx) :
          /\ RowsExact(Moved(x, uu, idx))
          /\ ret' = retr(x, uu, idx)
          /\ indices' = idx
          /\ u' = uu
    /\ op' = "retr" /\ x_before' = x
    /\ UNCHANGED <<x, pc, lossVars, distVars, otherVars>>

RetrInplace ==
    /\ op = "none"
    /\ \E idx \in IndexArgs(Len(x)) : \E uu \in TangentArgs(Len(x), idx) :
          /\ RowsExact(Moved(x, uu, idx))
          /\ x' = retr_(x, uu, idx)
          /\ ret' = x'
          /\ indices' = idx
          /\ u' = uu
    /\ op' = "retr_" /\ x_before' = x
    /\ UNCHANGED <<pc, lossVars, distVars, otherVars>>

(***************************************************************************)
(* Inverse cosine in fixed point.  Cosines are integers at a scale of      *)
(* 1e-4, angles are milliradians.  CosSmall is the Taylor polynomial to    *)
(* the t^10 term on [0, pi/2]; ACosFP is the least angle whose cosine does *)
(* not exceed the argument, found by bisection on [0, pi/2].               *)
(***************************************************************************)
FP == 10000
PiFP == 3142
HalfPiFP == 1571

CosSmall(t) ==
    LET t2 == (t * t) \div 100
        h5 == FP - t2 \div 90
        h4 == FP - (t2 * h5) \div (56 * FP)
        h3 == FP - (t2 * h4) \div (30 * FP)
        h2 == FP - (t2 * h3) \div (12 * FP)
    IN  FP - (t2 * h2) \div (2 * FP)

RECURSIVE Bisect(_, _, _)
Bisect(lo, hi, c) ==
    IF hi - lo <= 1 THEN hi
    ELSE LET mid == (lo + hi) \div 2
         IN  IF CosSmall(mid) <= c THEN Bisect(lo, mid, c)
             ELSE Bisect(mid, hi, c)

\* acos(c) for 0 <= c <= 1, and acos(-c) = pi - acos(c)
ACosFP(c) ==
    IF c >= 0 THEN Bisect(-1, HalfPiFP, c)
    ELSE PiFP - Bisect(-1, HalfPiFP, -c)

\* torch.acos: NaN outside [-1, 1]
TorchAcos(c) ==
    IF IsNan(c) THEN NaN
    ELSE IF ~RLeq(R(-1, 1), c) \/ ~RLeq(c, R(1, 1)) THEN NaN
    ELSE Fin(ACosFP((c.n * FP) \div c.d))

\* Tensor.clamp(lo, hi); NaN stays NaN
Clamp(c, lo, hi) ==
    IF IsNan(c) THEN c
    ELSE IF ~RLeq(lo, c) THEN lo
    ELSE IF ~RLeq(c, hi) THEN hi
    ELSE c

\* GradClippedACos.forward, lines 9-13
acos(c) == TorchAcos(Clamp(c, R(-1, 1), R(1, 1)))

\* sphere.py line 5
EPSILON_NUM == 1
EPSILON_DEN == 10000

dist_eps_clamped(a, b) ==
    acos(Clamp(Inner(a, b), R(EPSILON_NUM - EPSILON_DEN, EPSILON_DEN),
               R(EPSILON_DEN - EPSILON_NUM, EPSILON_DEN)))

dist_unclamped(a, b) == TorchAcos(Inner(a, b))

\* SphericalManifold.dist, lines 82-87
dist(a, b) == acos(Clamp(Inner(a, b), R(-1, 1), R(1, 1)))

UnitPoints ==
    {V2(R(1, 1), R(0, 1)), V2(R(0, 1), R(1, 1)), V2(R(-1, 1), R(0, 1)),
     V2(R(0, 1), R(-1, 1)), V2(R(3, 5), R(4, 5)), V2(R(-4, 5), R(3, 5)),
     V2(R(4, 5), R(-3, 5)), V2(R(-3, 5), R(-4, 5))}
OffSpherePoints ==
    {V2(R(3, 1), R(4, 1)), V2(R(0, 1), R(0, 1)), V2(R(-2, 1), R(0, 1)),
     V2(R(1, 1), R(1, 1)), V2(R(1, 2), R(0, 1))}
DistPoints == UnitPoints \cup OffSpherePoints

Dist ==
    /\ pc = "start"
    /\ dist_ret' = dist(dist_x, dist_y)
    /\ pc' = "done"
    /\ UNCHANGED <<dist_x, dist_y, lossVars, sphereVars, otherVars>>

(***************************************************************************)
(* SphericalManifold.exp.  The tangent norm is an exact rational; its sine *)
(* and cosine are Taylor polynomials in the squared norm, at scale FP.     *)
(***************************************************************************)
\* a non-negative rational at scale FP, rounded down
Scaled(a) == (a.n * FP) \div a.d

\* cos(t) from t2 = t^2 at scale FP, to the t^10 term
CosSq(t2) ==
    LET h5 == FP - t2 \div 90
        h4 == FP - (t2 * h5) \div (56 * FP)
        h3 == FP - (t2 * h4) \div (30 * FP)
        h2 == FP - (t2 * h3) \div (12 * FP)
    IN  FP - (t2 * h2) \div (2 * FP)

\* sin(t) / t from t2 = t^2 at scale FP, to the t^10 term
SincSq(t2) ==
    LET h5 == FP - t2 \div 110
        h4 == FP - (t2 * h5) \div (72 * FP)
        h3 == FP - (t2 * h4) \div (42 * FP)
        h2 == FP - (t2 * h3) \div (20 * FP)
    IN  FP - (t2 * h2) \div (6 * FP)

\* torch.cos(norm_u) and torch.sin(norm_u) of one row
TorchCos(v) == R(CosSq(Scaled(Inner(v, v))), FP)
TorchSin(v) == R((Scaled(Norm(v)) * SincSq(Scaled(Inner(v, v)))) \div FP, FP)

\* line 69: x * cos(norm_u) + u * sin(norm_u) / norm_u, one row
ExpRow(xr, ur) ==
    [i \in 1..Len(xr) |->
        RAdd(RMul(xr[i], TorchCos(ur)),
             RDiv(RMul(ur[i], TorchSin(ur)), Norm(ur)))]

\* line 71: norm_u > EPSILON
Cond_at_least(ur) == RLeq(R(EPSILON_NUM, EPSILON_DEN), Norm(ur))

Cond(ur) == ~RLeq(Norm(ur), R(EPSILON_NUM, EPSILON_DEN))

\* SphericalManifold.exp, lines 66-72
exp(t, uu) ==
    LET retr_rows == proj(TensorAdd(t, uu), None)
    IN  [r \in 1..Len(t) |->
            IF Cond(uu[r]) THEN ExpRow(t[r], uu[r]) ELSE retr_rows[r]]

\* base points: on the sphere, and the origin
ExpPoints ==
    {V2(R(1, 1), R(0, 1)), V2(R(0, 1), R(-1, 1)), V2(R(3, 5), R(4, 5)),
     V2(R(0, 1), R(0, 1))}
\* displacements of norm 0, EPSILON / 2, EPSILON, 2 * EPSILON, 1 / 2 and 1
ExpTangents ==
    {V2(R(0, 1), R(0, 1)),
     V2(R(EPSILON_NUM, 2 * EPSILON_DEN), R(0, 1)),
     V2(R(0, 1), R(-EPSILON_NUM, EPSILON_DEN)),
     V2(R(2 * EPSILON_NUM, EPSILON_DEN), R(0, 1)),
     V2(R(3, 10), R(4, 10)), V2(R(0, 1), R(1, 1))}

\* the rows whose retraction is returned have a rational norm: their
\* displacement is along the base point
RetrExact(t, uu) ==
    \A r \in 1..Len(t) :
        \/ Cond(uu[r])
        \/ /\ RMul(t[r][1], uu[r][2]) = RMul(t[r][2], uu[r][1])
           /\ ExactNorm(VecAdd(t[r], uu[r]))

Exp ==
    /\ op = "none"
    /\ RowsExact(u) /\ RetrExact(x, u)
    /\ ret' = exp(x, u)
    /\ op' = "exp" /\ x_before' = x
    /\ UNCHANGED <<x, u, indices, pc, lossVars, distVars, otherVars>>

(***************************************************************************)
(* closest_pd_matrix on batches of symmetric 2 x 2 matrices.  Entries and  *)
(* eigenvalues are integers in units of 1 / PD_ONE; the explored matrices  *)
(* have integer eigenvalues, so the eigendecomposition is exact.           *)
(***************************************************************************)
PD_ONE == 50000
\* the 1e-3 of lines 117 and 118
PD_TOL == PD_ONE \div 1000

Mat(a, b, c, d) == <<<<a, b>>, <<c, d>>>>

\* torch.symeig: the eigenvalues in ascending order
Symeig(m) ==
    LET tr == m[1][1] + m[2][2]
        gap == ISqrt((m[1][1] - m[2][2]) * (m[1][1] - m[2][2])
                        + 4 * m[1][2] * m[1][2])
    IN  <<(tr - gap) \div 2, (tr + gap) \div 2>>

\* lines 114-116: vectors * diag(relu(eigenvalues)) * vectors^T, written
\* with the spectral projectors (m - l1 I) / (l2 - l1), (l2 I - m) / (l2 - l1)
NearestPsd(m) ==
    LET ev == Symeig(m)
        e1 == relu(Fin(ev[1])).v
        e2 == relu(Fin(ev[2])).v
        I(i, j) == IF i = j THEN 1 ELSE 0
    IN  [i \in 1..2 |-> [j \in 1..2 |->
            IF ev[1] = ev[2] THEN e1 * I(i, j)
            ELSE (e1 * (ev[2] * I(i, j) - m[i][j])
                    + e2 * (m[i][j] - ev[1] * I(i, j))) \div (ev[2] - ev[1])]]

\* eigenvalues.min() over the whole batch, after relu
RECURSIVE BatchMin(_, _)
BatchMin(ms, n) ==
    LET e == relu(Fin(Symeig(ms[n])[1])).v
    IN  IF n = 1 THEN e
        ELSE LET rest == BatchMin(ms, n - 1) IN IF e < rest THEN e ELSE rest

\* nearest_psd + 1e-3 * eye
AddOffset(m) ==
    [i \in 1..2 |-> [j \in 1..2 |-> m[i][j] + (IF i = j THEN PD_TOL ELSE 0)]]

\* lines 112-121
closest_pd_matrix(ms) ==
    IF BatchMin(ms, Len(ms)) < PD_TOL
    THEN [n \in 1..Len(ms) |-> AddOffset(NearestPsd(ms[n]))]
    ELSE [n \in 1..Len(ms) |-> NearestPsd(ms[n])]

\* the symmetric matrix with eigenvalue l1 on the axis (1, 0) or (3/5, 4/5)
\* and l2 on the orthogonal axis
FromSpectrum(l1, l2, turned) ==
    IF turned
    THEN Mat((9 * l1 + 16 * l2) \div 25, (12 * (l1 - l2)) \div 25,
             (12 * (l1 - l2)) \div 25, (16 * l1 + 9 * l2) \div 25)
    ELSE Mat(l1, 0, 0, l2)

\* eigenvalues: negative, zero, below 1e-3, exactly 1e-3, and large
PdEigenvalues == {-2 * PD_TOL, 0, PD_TOL \div 2, PD_TOL, PD_ONE \div 10}
PdMatrices ==
    {FromSpectrum(l1, l2, t) : l1, l2 \in PdEigenvalues, t \in BOOLEAN}

ClosestPd ==
    /\ pc = "start"
    /\ pd_ret' = closest_pd_matrix(pd_matrix)
    /\ pc' = "done"
    /\ UNCHANGED <<pd_matrix, exceptPd>>

(***************************************************************************)
(* riemannian_divergence on batches of 2 x 2 matrices.  The inverse and    *)
(* the product are exact rationals; the eigenvalues are integers at scale  *)
(* FP, their logarithms integers at scale FP, and the squared norm sums    *)
(* the logarithms at scale 100, so the result is at scale FP.              *)
(***************************************************************************)
Inverse_adjugate(m) ==
    Mat(m[2][2], RMul(R(-1, 1), m[1][2]), RMul(R(-1, 1), m[2][1]), m[1][1])

\* torch.inverse of an invertible matrix
Inverse(m) ==
    LET det == RAdd(RMul(m[1][1], m[2][2]),
                    RMul(R(-1, 1), RMul(m[1][2], m[2][1])))
    IN  Mat(RDiv(m[2][2], det), RDiv(RMul(R(-1, 1), m[1][2]), det),
            RDiv(RMul(R(-1, 1), m[2][1]), det), RDiv(m[1][1], det))

\* torch.bmm, one sample
MatMul(a, b) ==
    [i \in 1..2 |-> [j \in 1..2 |->
        RAdd(RMul(a[i][1], b[1][j]), RMul(a[i][2], b[2][j]))]]

\* the upper triangle that torch.symeig reads, mirrored, at scale FP
UpperScaled(m) ==
    Mat(Scaled(m[1][1]), Scaled(m[1][2]), Scaled(m[1][2]), Scaled(m[2][2]))

\* the min of torch.clamp(eigenvalues, min=1e-5), line 108
CLAMP_MIN_DEN == 100000

\* ln(num / den) at scale FP
LnRatio(num, den) ==
    LET n == LnNorm(num, den, 0)
        z == ((n[1] - n[2]) * FP) \div (n[1] + n[2])
        z2 == (z * z) \div FP
        z3 == (z2 * z) \div FP
        z5 == (z3 * z2) \div FP
    IN  2 * (z + z3 \div 3 + z5 \div 5) + n[3] * Ln2FP

\* lines 108-109: log of the eigenvalue clamped from below
LogEig(e) ==
    IF e * (CLAMP_MIN_DEN \div FP) < 1 THEN LnRatio(1, CLAMP_MIN_DEN)
    ELSE LnRatio(e, FP)

\* lines 104-110, one sample
Divergence(a, b) ==
    LET ev == Symeig(UpperScaled(MatMul(Inverse(a), b)))
        l1 == LogEig(ev[1]) \div 100
        l2 == LogEig(ev[2]) \div 100
    IN  Fin(l1 * l1 + l2 * l2)

riemannian_divergence(as, bs) ==
    [n \in 1..Len(as) |-> Divergence(as[n], bs[n])]

RMat(a, b, c, d, den) == Mat(R(a, den), R(b, den), R(c, den), R(d, den))

\* invertible matrices: positive definite ones and an indefinite one
DivLeft ==
    {RMat(1, 0, 0, 1, 1), RMat(2, 1, 1, 2, 1), RMat(1, 0, 0, 2, 1),
     RMat(5, 3, 3, 5, 4), RMat(1, 0, 0, -1, 1)}
\* right arguments: the same, and the zero matrix
DivRight == DivLeft \cup {RMat(0, 0, 0, 0, 1)}

\* metric_loss line 97 around riemannian_divergence, lines 104-110
ComputeDivergence ==
    /\ pc = "start"
    /\ div_ret' = riemannian_divergence(matrix_a, matrix_b)
    /\ div_loss' = Mean(div_ret', Len(matrix_a))
    /\ pc' = "done"
    /\ UNCHANGED <<matrix_a, matrix_b, exceptDiv>>

(***************************************************************************)
(* Storage effects.  Each function is the sequence of its tensor           *)
(* statements; a statement names the torch operation, the local it binds   *)
(* and its first operand.  An operation returns a view of its operand's    *)
(* storage, writes its operand's storage in place, or allocates a new      *)
(* storage.  A storage is abstracted to the number of in-place writes it   *)
(* has received.                                                           *)
(***************************************************************************)
Stmt(line, o, dst, src) == [line |-> line, op |-> o, dst |-> dst, src |-> src]

\* operations whose result shares the storage of their operand
ViewOps_every == {"narrow", "expand", "expand_as", "unsqueeze", "mul", "add",
                  "sub", "div", "clone", "gather", "where", "index_add"}

ViewOps == {"narrow", "expand", "expand_as", "unsqueeze"}

\* operations that return their operand or a new tensor, depending on the
\* caller: Tensor.to(device) and the injected scale_function
EitherOps == {"to", "scale_function"}

\* operations that write into the storage of their operand
InPlaceOps == {"add_", "log_", "sub_", "triu_", "relu_", "unsqueeze_",
               "imul", "setitem", "idiv_setitem"}

\* SphericalManifold.dist, lines 82-87, on the locals a and b
DistBody(a, b, out) ==
    <<Stmt(83, "mul", "inner", a), Stmt(83, "sum", "inner", "inner"),
      Stmt(86, "clamp", "inner", "inner"), Stmt(87, "acos", out, "inner")>>

\* SphericalManifold.proj, lines 34-41, on the local a
ProjBody(a, withIndices, out) ==
    IF withIndices
    THEN <<Stmt(36, "getitem", "norm", a), Stmt(36, "norm", "norm", "norm"),
           Stmt(37, "clone", "x_proj", a),
           Stmt(38, "idiv_setitem", "x_proj", "x_proj")>>
    ELSE <<Stmt(40, "norm", "norm", a), Stmt(41, "div", out, a)>>

\* lines 52-57
RetrBody(withIndices) ==
    <<Stmt(IF withIndices THEN 54 ELSE 56,
           IF withIndices THEN "index_add" ELSE "add", "y", "x")>>
        \o ProjBody("y", withIndices, "ret")

\* lines 66-72
ExpBody ==
    <<Stmt(67, "norm", "norm_u", "u"), Stmt(69, "cos", "cos", "norm_u"),
      Stmt(69, "mul", "exp", "x"), Stmt(69, "sin", "sin", "norm_u"),
      Stmt(69, "mul", "scaled", "u"), Stmt(69, "div", "scaled", "scaled"),
      Stmt(69, "add", "exp", "exp"), Stmt(70, "add", "moved", "x")>>
        \o ProjBody("moved", FALSE, "retr")
        \o <<Stmt(71, "gt", "cond", "norm_u"), Stmt(72, "where", "ret", "exp")>>

\* lines 74-80
LogBody ==
    <<Stmt(75, "sub", "u", "y"), Stmt(76, "mul", "shift", "x"),
      Stmt(76, "sum", "shift", "shift"), Stmt(76, "mul", "shift", "shift"),
      Stmt(76, "sub_", "u", "u")>>
        \o DistBody("x", "y", "dist")
        \o <<Stmt(78, "norm", "norm_u", "u"), Stmt(79, "gt", "cond", "norm_u"),
             Stmt(80, "mul", "scaled", "u"), Stmt(80, "div", "scaled", "scaled"),
             Stmt(80, "where", "ret", "scaled")>>

\* lines 89-90
RgradBody ==
    <<Stmt(90, "mul", "shift", "x"), Stmt(90, "sum", "shift", "shift"),
      Stmt(90, "mul", "shift", "shift"), Stmt(90, "sub", "ret", "dx")>>

\* graph_manifold_margin_loss.py lines 37-84; embed_nodes looks the rows up
\* in the embedding weight (graph_embedder.py lines 98-100)
MarginLossBody ==
    <<Stmt(37, "embedding", "sample_vertices", "weight"),
      Stmt(41, "embedding", "main_vertices", "weight"),
      Stmt(42, "unsqueeze", "main_vertices", "main_vertices"),
      Stmt(42, "expand_as", "main_vertices", "main_vertices")>>
        \o DistBody("main_vertices", "sample_vertices", "manifold_dists")
        \o <<Stmt(47, "to", "train_distances", "batch_train_distances"),
             Stmt(50, "argsort", "sorted_indices", "train_distances"),
             Stmt(52, "gather", "manifold_dists_sorted", "manifold_dists"),
             Stmt(53, "scale_function", "manifold_dists_sorted",
                  "manifold_dists_sorted"),
             Stmt(57, "unsqueeze", "row_expanded", "manifold_dists_sorted"),
             Stmt(57, "expand", "row_expanded", "row_expanded"),
             Stmt(59, "unsqueeze", "column_expanded", "manifold_dists_sorted"),
             Stmt(59, "expand", "column_expanded", "column_expanded"),
             Stmt(64, "sub", "diff_matrix", "row_expanded"),
             Stmt(64, "add", "diff_matrix", "diff_matrix"),
             Stmt(66, "gather", "train_dists_sorted", "train_distances"),
             Stmt(68, "unsqueeze", "train_row_expanded", "train_dists_sorted"),
             Stmt(68, "expand", "train_row_expanded", "train_row_expanded"),
             Stmt(70, "unsqueeze", "train_column_expanded",
                  "train_dists_sorted"),
             Stmt(70, "expand", "train_column_expanded",
                  "train_column_expanded"),
             Stmt(71, "sub", "diff_matrix_train", "train_row_expanded"),
             Stmt(73, "eq", "mask", "diff_matrix_train"),
             Stmt(73, "where", "masked_diff_matrix", "diff_matrix_train"),
             Stmt(75, "triu", "masked_diff_matrix", "masked_diff_matrix"),
             Stmt(76, "relu", "masked_diff_matrix", "masked_diff_matrix"),
             Stmt(79, "isnan", "mask", "masked_diff_matrix"),
             Stmt(81, "isnan", "mask", "masked_diff_matrix"),
             Stmt(81, "setitem", "masked_diff_matrix", "masked_diff_matrix"),
             Stmt(82, "isinf", "mask", "masked_diff_matrix"),
             Stmt(82, "setitem", "masked_diff_matrix", "masked_diff_matrix"),
             Stmt(83, "sum", "loss", "masked_diff_matrix"),
             Stmt(83, "sum", "loss", "loss"), Stmt(83, "mean", "loss", "loss")>>

\* graph_embedding_utils.py lines 31-57
ReluSumLossBody ==
    <<Stmt(31, "embedding", "input_embeddings", "weight"),
      Stmt(33, "narrow", "sample_vertices", "input_embeddings"),
      Stmt(34, "narrow", "main_vertices", "input_embeddings"),
      Stmt(34, "expand_as", "main_vertices", "main_vertices")>>
        \o DistBody("main_vertices", "sample_vertices", "manifold_dists")
        \o <<Stmt(37, "argsort", "sorted_indices", "train_distances"),
             Stmt(38, "gather", "manifold_dists_sorted", "manifold_dists"),
             Stmt(39, "add_", "manifold_dists_sorted", "manifold_dists_sorted"),
             Stmt(39, "log_", "manifold_dists_sorted", "manifold_dists_sorted"),
             Stmt(41, "unsqueeze", "row_expanded", "manifold_dists_sorted"),
             Stmt(41, "expand", "row_expanded", "row_expanded"),
             Stmt(42, "unsqueeze", "column_expanded", "manifold_dists_sorted"),
             Stmt(42, "expand", "column_expanded", "column_expanded"),
             Stmt(43, "sub", "diff_matrix", "row_expanded"),
             Stmt(43, "add", "diff_matrix", "diff_matrix"),
             Stmt(45, "gather", "train_dists_sorted", "train_distances"),
             Stmt(46, "unsqueeze", "train_row_expanded", "train_dists_sorted"),
             Stmt(46, "expand", "train_row_expanded", "train_row_expanded"),
             Stmt(47, "unsqueeze", "train_column_expanded",
                  "train_dists_sorted"),
             Stmt(47, "expand", "train_column_expanded",
                  "train_column_expanded"),
             Stmt(48, "sub", "diff_matrix_train", "train_row_expanded"),
             Stmt(49, "eq", "mask", "diff_matrix_train"),
             Stmt(49, "where", "masked_diff_matrix", "diff_matrix_train"),
             Stmt(50, "triu_", "masked_diff_matrix", "masked_diff_matrix"),
             Stmt(51, "relu_", "masked_diff_matrix", "masked_diff_matrix"),
             Stmt(52, "mean", "masked_diff_matrix", "masked_diff_matrix"),
             Stmt(53, "arange", "order_scale", "masked_diff_matrix"),
             Stmt(54, "ones_like", "ones", "order_scale"),
             Stmt(54, "mul", "ones", "ones"),
             Stmt(54, "pow", "order_scale", "ones"),
             Stmt(55, "unsqueeze_", "order_scale", "order_scale"),
             Stmt(55, "expand_as", "order_scale", "order_scale"),
             Stmt(56, "imul", "masked_diff_matrix", "masked_diff_matrix"),
             Stmt(57, "sum", "loss", "masked_diff_matrix"),
             Stmt(57, "mean", "loss", "loss")>>

Calls ==
    {"graph_manifold_margin_loss", "manifold_dist_loss_relu_sum", "dist",
     "exp", "log", "proj", "proj_indices", "retr", "retr_indices", "rgrad"}

Body(c) ==
    CASE c = "graph_manifold_margin_loss" -> MarginLossBody
      [] c = "manifold_dist_loss_relu_sum" -> ReluSumLossBody
      [] c = "dist" -> DistBody("x", "y", "ret")
      [] c = "exp" -> ExpBody
      [] c = "log" -> LogBody
      [] c = "proj" -> ProjBody("x", FALSE, "ret")
      [] c = "proj_indices" -> ProjBody("x", TRUE, "ret")
      [] c = "retr" -> RetrBody(FALSE)
      [] c = "retr_indices" -> RetrBody(TRUE)
      [] c = "rgrad" -> RgradBody

\* the tensors a call receives; a loss also reads the embedding weight
Args(c) ==
    CASE c = "graph_manifold_margin_loss" -> {"weight", "batch_train_distances"}
      [] c = "manifold_dist_loss_relu_sum" -> {"weight", "train_distances"}
      [] c \in {"dist", "log"} -> {"x", "y"}
      [] c \in {"exp", "retr", "retr_indices"} -> {"x", "u"}
      [] c \in {"proj", "proj_indices"} -> {"x"}
      [] c = "rgrad" -> {"x", "dx"}

\* every local name of every body
Names ==
    UNION {Args(c) \cup {Body(c)[i].dst : i \in 1..Len(Body(c))} : c \in Calls}

\* number of storages that exist before the call
MaxStorages == 2

Running == call \in Calls /\ at <= Len(Body(call))
Next_stmt == Body(call)[at]

\* the operation hands out a new storage
Allocate ==
    /\ Running
    /\ Next_stmt.op \notin ViewOps \cup InPlaceOps
    /\ versions' = Append(versions, 0)
    /\ env' = [env EXCEPT ![Next_stmt.dst] = Len(versions) + 1]
    /\ at' = at + 1
    /\ UNCHANGED <<call, written, pc, exceptFrame>>

\* the result refers to the storage of the operand
Alias ==
    /\ Running
    /\ Next_stmt.op \in ViewOps \cup EitherOps
    /\ env' = [env EXCEPT ![Next_stmt.dst] = env[Next_stmt.src]]
    /\ at' = at + 1
    /\ UNCHANGED <<call, versions, written, pc, exceptFrame>>

\* the operation overwrites the storage of the operand
WriteInPlace ==
    /\ Running
    /\ Next_stmt.op \in InPlaceOps
    /\ versions' = [versions EXCEPT ![env[Next_stmt.src]] = @ + 1]
    /\ written' = written \cup {env[Next_stmt.src]}
    /\ env' = [env EXCEPT ![Next_stmt.dst] = env[Next_stmt.src]]
    /\ at' = at + 1
    /\ UNCHANGED <<call, pc, exceptFrame>>

(***************************************************************************)
(* Shapes in metric_loss.  The tangent projection enters through its       *)
(* eigenvalues, ascending per sample as torch.symeig returns them, in      *)
(* units of 1e-3; every tensor after that is its shape.                    *)
(***************************************************************************)
MaxDim == 3

\* (proj_eigenval > 1e-3).nonzero(): the positions, in row-major order
RECURSIVE Nonzero(_, _, _)
Nonzero(ev, r, c) ==
    IF r > Len(ev) THEN <<>>
    ELSE IF c > Len(ev[r]) THEN Nonzero(ev, r + 1, 1)
    ELSE (IF ev[r][c] > 1 THEN <<<<r - 1, c - 1>>>> ELSE <<>>)
            \o Nonzero(ev, r, c + 1)

\* line 92: bmm(bmm(sig_eig_t, in_metric_batch), significant_eigenvec_batch)
InMetricReduced(b, d, r) == <<b, r, r>>

\* line 87: [b, r, o] x [b, o, o] x [b, o, r]
PullbackMetric(b, o, r) == <<b, r, r>>

\* tensor.view(rows, -1)
ViewRows(shape, rows) == <<rows, (shape[1] * shape[2] * shape[3]) \div rows>>

\* line 93: the view is taken of in_metric_batch, of shape [b, d, d]
InMetricFlattened(b, d, r) == ViewRows(<<b, d, d>>, InMetricReduced(b, d, r)[1])

\* line 94
PullbackFlattened(b, o, r) ==
    ViewRows(PullbackMetric(b, o, r), PullbackMetric(b, o, r)[1])

\* cosine_similarity(x1, x2, -1) broadcasts the last dimension or fails
Broadcastable(m, n) == m = n \/ m = 1 \/ n = 1

\* lines 76-102
MetricLoss ==
    /\ pc = "start"
    /\ LET b == Len(proj_eigenval)
           d == Len(proj_eigenval[1])
           nz == Nonzero(proj_eigenval, 1, 1)
       IN  IF nz = <<>>
           THEN /\ metric_status' = "index_error"
                /\ flattened' = <<>>
           ELSE LET first_nonzero == nz[1][2]
                    r == d - first_nonzero
                    pf == PullbackFlattened(b, out_dimension, r)
                    mf == InMetricFlattened(b, d, r)
                IN  /\ flattened' = <<pf[2], mf[2]>>
                    /\ metric_status' =
                          IF isometric \/ Broadcastable(pf[2], mf[2])
                          THEN "ok" ELSE "size_error"
    /\ pc' = "done"
    /\ UNCHANGED <<proj_eigenval, out_dimension, isometric, exceptMetric>>

\* eigenvalues of a projection up to rounding: 0, 1e-3 and 1
Eigenvalues == {0, 1, 1000}
AscendingRows(d) ==
    {row \in [1..d -> Eigenvalues] : \A i \in 1..(d - 1) : row[i] <= row[i + 1]}

(***************************************************************************)
(* manifold_dist_loss_relu_sum.  Distances and their logarithms are in     *)
(* units of 0.01; the discount is a rational n / d, and the row of sorted  *)
(* position j (from 1) carries the integer weight n^(j-1) * d^(k-j) over   *)
(* the common denominator d^(k-1).                                         *)
(***************************************************************************)
\* floor(100 * ln(EPSILON)) for the EPSILON = 1e-9 of line 17
LN_EPSILON == -2073

\* line 39: add_(EPSILON).log_(); EPSILON is below the unit of a distance
LogEps(a) ==
    IF IsFin(a) /\ a.v = 0 THEN Fin(LN_EPSILON) ELSE ExtLog(a)

\* lines 38-39
LogDistsSorted(md, si, r, j) == LogEps(md[r][si[r][j]])

\* lines 41-43: entry [r, j, l] is log d_j - log d_l + margin
LogDiffMatrix(md, si, m, r, j, l) ==
    ExtAdd(ExtSub(LogDistsSorted(md, si, r, j), LogDistsSorted(md, si, r, l)),
           Fin(m))

\* lines 45-51: mask the ties, keep the upper triangle, relu
ReluSumMatrix(md, td, si, m, r, j, l) ==
    relu(Triu(j, l, Where(DiffMatrixTrain(td, si, r, j, l),
                          LogDiffMatrix(md, si, m, r, j, l))))

\* line 52: mean(-1) of row j, times k
RowTotal(md, td, si, m, r, j) ==
    SumSeq([l \in 1..Cols(md) |-> ReluSumMatrix(md, td, si, m, r, j, l)],
           Cols(md))

RECURSIVE Pow(_, _)
Pow(a, e) == IF e = 0 THEN 1 ELSE a * Pow(a, e - 1)

OrderScale_undiscounted(disc, j, k) == Pow(disc.d, k - 1)

\* lines 53-55: discount_factor ** (j - 1), times d^(k-1)
OrderScale(disc, j, k) == Pow(disc.n, j - 1) * Pow(disc.d, k - j)

ExtTimes(a, c) == IF IsFin(a) THEN Fin(a.v * c) ELSE a

\* line 56: masked_diff_matrix *= order_scale, times k * d^(k-1)
Discounted(md, td, si, m, disc) ==
    [r \in 1..Rows(md) |-> [j \in 1..Cols(md) |->
        ExtTimes(RowTotal(md, td, si, m, r, j),
                 OrderScale(disc, j, Cols(md)))]]

\* line 57: sum(-1).mean(), as an exact fraction
manifold_dist_loss_relu_sum(md, td, si, m, disc) ==
    LET dm == Discounted(md, td, si, m, disc)
        rows == [r \in 1..Rows(md) |-> SumSeq(dm[r], Cols(md))]
        l == Mean(rows, Rows(md))
        den == l.den * Cols(md) * Pow(disc.d, Cols(md) - 1)
        g == Gcd(Abs(l.num), den)
    IN  IF l.k # "fin" THEN [status |-> "ok", num |-> l.num, den |-> 1, k |-> l.k]
        ELSE [status |-> "ok", num |-> l.num \div g, den |-> den \div g,
              k |-> "fin"]

ComputeReluSum ==
    /\ pc = "start"
    /\ \E si \in ArgSort(train_distances) :
          /\ sorted_indices' = si
          /\ masked_diff_matrix' =
                Discounted(manifold_dists, train_distances, si, margin,
                           discount_factor)
          /\ loss' = manifold_dist_loss_relu_sum(manifold_dists, train_distances,
                                                 si, margin, discount_factor)
    /\ pc' = "done"
    /\ UNCHANGED <<manifold_dists, train_distances, margin, scale_function>>
    /\ UNCHANGED <<sphereVars, distVars, otherVars>>

\* the default 0.9, and 0.5
Discounts == {R(9, 10), R(1, 2)}
\* distances, zero included
ReluSumDistVals == {Fin(d) : d \in {0, 10}}
ReluSumMargins == {0, 1}

(***************************************************************************)
(* GraphEmbedder.retrieve_nodes.  embed_nodes is abstract: the embedding   *)
(* of a node is a value tagged with its id.                                *)
(***************************************************************************)
MaxNodes == 7
MaxBlockSize == 4

Embedding(id) == [node |-> id]

\* embed_nodes(torch.arange(start, end)): one row per id, in order
embed_nodes(start, end) ==
    [r \in 1..(IF end > start THEN end - start ELSE 0) |->
        Embedding(start + r - 1)]

Min(a, b) == IF a < b THEN a ELSE b

RECURSIVE Cat(_, _)
Cat(blocks, n) == IF n = 0 THEN <<>> ELSE Cat(blocks, n - 1) \o blocks[n]

\* lines 53-57
Begin ==
    /\ pc = "start"
    /\ num_blocks' = (total_n_nodes + block_size - 1) \div block_size
    /\ block_i' = 0 /\ out_blocks' = <<>> /\ requested' = <<>>
    /\ pc' = "loop"
    /\ UNCHANGED <<total_n_nodes, block_size, retrieved, exceptRetrieve>>

\* lines 59-65, one iteration
EmbedBlock ==
    /\ pc = "loop" /\ block_i < num_blocks
    /\ LET start_index == block_i * block_size
           end_index == Min((block_i + 1) * block_size, total_n_nodes)
       IN  /\ requested' = Append(requested, <<start_index, end_index>>)
           /\ out_blocks' =
                 Append(out_blocks, embed_nodes(start_index, end_index))
    /\ block_i' = block_i + 1
    /\ UNCHANGED <<pc, total_n_nodes, block_size, num_blocks, retrieved,
                   exceptRetrieve>>

\* lines 66-67: torch.cat raises on an empty list of tensors
Concatenate ==
    /\ pc = "loop" /\ block_i >= num_blocks
    /\ retrieved' = IF out_blocks = <<>>
              THEN [status |-> "error", rows |-> <<>>]
              ELSE [status |-> "ok", rows |-> Cat(out_blocks, Len(out_blocks))]
    /\ pc' = "done"
    /\ UNCHANGED <<total_n_nodes, block_size, num_blocks, block_i, requested,
                   out_blocks, exceptRetrieve>>

(***************************************************************************)
(* GradClippedACos.backward.  The saved cosine is quantised to the scale   *)
(* FP, so 1 - c^2 is an integer at scale FP^2 and its square root an       *)
(* integer at scale FP; the gradient keeps the unit of grad_output.        *)
(***************************************************************************)
\* floor of the square root of 0 <= n <= FP^2
FloorSqrt(n) == SqrtBetween(n, 0, FP + 1)

\* quotient rounded towards zero
Quot(a, b) == IF a >= 0 THEN a \div b ELSE -((-a) \div b)

\* - grad_output / ((1 - x ** 2) ** 0.5) for a cosine c at scale FP
GradAt(c, g) ==
    LET den == FloorSqrt(FP * FP - c * c)
    IN  IF IsNan(g) THEN NaN
        ELSE IF den = 0
        THEN (IF g.v = 0 THEN NaN ELSE IF g.v > 0 THEN NegInf ELSE PosInf)
        ELSE IF IsInf(g) THEN ExtNeg(g)
        ELSE Fin(Quot(-(g.v * FP), den))

backward_not_reclamped(saved, g) ==
    IF IsNan(saved) THEN NaN ELSE GradAt((saved.n * FP) \div saved.d, g)

\* GradClippedACos.backward, lines 16-20
backward(saved, g) ==
    LET c == Clamp(saved, R(EPSILON_NUM - EPSILON_DEN, EPSILON_DEN),
                   R(EPSILON_DEN - EPSILON_NUM, EPSILON_DEN))
    IN  IF IsNan(c) THEN NaN ELSE GradAt((c.n * FP) \div c.d, g)

\* inputs of acos: inside, on the border of and outside [-1, 1]
AcosInputs ==
    {R(n, 1) : n \in -2..2}
        \cup {R(n, 5) : n \in {-4, -3, 3, 4}}
        \cup {R(n, EPSILON_DEN) :
                 n \in {EPSILON_DEN - EPSILON_NUM, EPSILON_NUM - EPSILON_DEN,
                        EPSILON_DEN + EPSILON_NUM, -EPSILON_DEN - EPSILON_NUM}}
        \cup {R(n, 2 * EPSILON_DEN) : n \in {2 * EPSILON_DEN - 1, 1 - 2 * EPSILON_DEN}}
        \cup {RNaN}
GradOutputs == {Fin(g) : g \in {-100, -7, 0, 1, 100}}

\* lines 9-13: clamp, save the clamped value, return its inverse cosine
Forward ==
    /\ pc = "start"
    /\ acos_saved' = <<Clamp(acos_x, R(-1, 1), R(1, 1))>>
    /\ acos_ret' = acos(acos_x)
    /\ pc' = "saved"
    /\ UNCHANGED <<acos_x, grad_output, acos_grad, exceptAcos>>

\* lines 16-20
Backward ==
    /\ pc = "saved"
    /\ acos_grad' = backward(acos_saved[1], grad_output)
    /\ pc' = "done"
    /\ UNCHANGED <<acos_x, acos_saved, acos_ret, grad_output, exceptAcos>>

LossUnused ==
    /\ manifold_dists = <<>> /\ train_distances = <<>>
    /\ margin = 0 /\ scale_function = "identity"
    /\ sorted_indices = <<>>
    /\ masked_diff_matrix = NoMatrix
    /\ loss = NotCalled

InitSphere ==
    /\ LossUnused /\ OtherIdle
    /\ pc = "none"
    /\ \E n \in 1..MaxPoints : x \in [1..n -> AmbientPoints]
    /\ x_before = x /\ u = None /\ indices = None /\ ret = None
    /\ op = "none"
    /\ dist_x = <<>> /\ dist_y = <<>> /\ dist_ret = Fin(0)

InitDist ==
    /\ LossUnused /\ OtherIdle
    /\ pc = "start"
    /\ x = <<>> /\ x_before = <<>> /\ u = None /\ indices = None /\ ret = None
    /\ op = "none"
    /\ dist_x \in DistPoints /\ dist_y \in DistPoints
    /\ dist_ret = Fin(0)

vars == <<pc, lossVars, sphereVars, distVars, otherVars>>

NextLoss == ComputeLoss
NextSphere == Proj \/ ProjInplace \/ Retr \/ RetrInplace

Spec == InitLoss /\ [][NextLoss]_vars
SpecSpecial == InitSpecial /\ [][NextLoss]_vars
SpecShape == InitShape /\ [][NextLoss]_vars
SpecSphere == InitSphere /\ [][NextSphere]_vars
SpecDist == InitDist /\ [][Dist]_vars

\* no manifold operation is modelled
ManifoldUnused ==
    /\ x = <<>> /\ x_before = <<>> /\ u = None /\ indices = None /\ ret = None
    /\ op = "none"
    /\ dist_x = <<>> /\ dist_y = <<>> /\ dist_ret = Fin(0)

InitAcos ==
    /\ LossUnused /\ ManifoldUnused /\ PdUnused /\ DivUnused /\ FrameUnused
    /\ MetricUnused /\ DiscountUnused /\ RetrieveUnused
    /\ pc = "start"
    /\ acos_x \in AcosInputs /\ grad_output \in GradOutputs
    /\ acos_saved = <<>> /\ acos_ret = Fin(0) /\ acos_grad = Fin(0)

InitExp ==
    /\ LossUnused /\ OtherIdle
    /\ pc = "none"
    /\ \E n \in 1..MaxPoints :
          /\ x \in [1..n -> ExpPoints]
          /\ u \in [1..n -> ExpTangents]
    /\ x_before = x /\ indices = None /\ ret = None
    /\ op = "none"
    /\ dist_x = <<>> /\ dist_y = <<>> /\ dist_ret = Fin(0)

SpecExp == InitExp /\ [][Exp]_vars

InitPd ==
    /\ LossUnused /\ ManifoldUnused /\ AcosUnused /\ DivUnused /\ FrameUnused
    /\ MetricUnused /\ DiscountUnused /\ RetrieveUnused
    /\ pc = "start"
    /\ \E n \in 1..MaxBatch : pd_matrix \in [1..n -> PdMatrices]
    /\ pd_ret = <<>>

SpecPd == InitPd /\ [][ClosestPd]_vars

InitDiv ==
    /\ LossUnused /\ ManifoldUnused /\ AcosUnused /\ PdUnused /\ FrameUnused
    /\ MetricUnused /\ DiscountUnused /\ RetrieveUnused
    /\ pc = "start"
    /\ \E n \in 1..MaxBatch :
          /\ matrix_a \in [1..n -> DivLeft]
          /\ matrix_b \in [1..n -> DivRight]
    /\ div_ret = <<>> /\ div_loss = [k |-> "fin", num |-> 0, den |-> 1]

SpecDiv == InitDiv /\ [][ComputeDivergence]_vars

\* the arguments of the call refer to existing storages, possibly the same
InitFrame ==
    /\ LossUnused /\ ManifoldUnused /\ AcosUnused /\ PdUnused /\ DivUnused
    /\ MetricUnused /\ DiscountUnused /\ RetrieveUnused
    /\ pc = "none"
    /\ call \in Calls /\ at = 1
    /\ \E given \in [Args(call) -> 1..MaxStorages] :
          env = [n \in Names |-> IF n \in Args(call) THEN given[n] ELSE 0]
    /\ versions = [i \in 1..MaxStorages |-> 0]
    /\ written = {}

NextFrame == Allocate \/ Alias \/ WriteInPlace
SpecFrame == InitFrame /\ [][NextFrame]_vars

InitMetric ==
    /\ LossUnused /\ ManifoldUnused /\ AcosUnused /\ PdUnused /\ DivUnused
    /\ FrameUnused /\ DiscountUnused /\ RetrieveUnused
    /\ pc = "start"
    /\ \E b \in 1..MaxBatch : \E d \in 1..MaxDim :
          proj_eigenval \in [1..b -> AscendingRows(d)]
    /\ out_dimension \in 1..MaxDim
    /\ isometric \in BOOLEAN
    /\ flattened = <<>> /\ metric_status = "none"

SpecMetric == InitMetric /\ [][MetricLoss]_vars

InitReluSum ==
    /\ LossStart
    /\ AcosUnused /\ PdUnused /\ DivUnused /\ FrameUnused /\ MetricUnused
    /\ RetrieveUnused
    /\ margin \in ReluSumMargins
    /\ scale_function = "log"
    /\ discount_factor \in Discounts
    /\ \/ \E k \in 1..MaxNeighbors :
             /\ manifold_dists \in Tensors(1, k, ReluSumDistVals)
             /\ train_distances \in Tensors(1, k, TrainVals)
       \/ \E b \in 2..MaxBatch : \E k \in 1..(MaxBatchCells \div b) :
             /\ manifold_dists \in Tensors(b, k, BatchDistVals)
             /\ train_distances \in Tensors(b, k, BatchTrainVals)

SpecReluSum == InitReluSum /\ [][ComputeReluSum]_vars

InitRetrieve ==
    /\ LossUnused /\ ManifoldUnused /\ AcosUnused /\ PdUnused /\ DivUnused
    /\ FrameUnused /\ MetricUnused /\ DiscountUnused
    /\ pc = "start"
    /\ total_n_nodes \in 0..MaxNodes
    /\ block_size \in 1..MaxBlockSize
    /\ num_blocks = 0 /\ block_i = 0 /\ requested = <<>> /\ out_blocks = <<>>
    /\ retrieved = [status |-> "none", rows |-> <<>>]

NextRetrieve == Begin \/ EmbedBlock \/ Concatenate
SpecRetrieve == InitRetrieve /\ [][NextRetrieve]_vars

NextAcos == Forward \/ Backward
SpecAcos == InitAcos /\ [][NextAcos]_vars

(***************************************************************************)
(* Properties of graph_manifold_margin_loss.                               *)
(***************************************************************************)
Returned == pc = "done" /\ loss.status = "ok"
SameShape == Rows(manifold_dists) = Rows(train_distances)
                /\ Cols(manifold_dists) = Cols(train_distances)
B == Rows(manifold_dists)
K == Cols(manifold_dists)

\* manifold distance of the neighbour that the sort placed at position j
SortedDist(r, j) == manifold_dists[r][sorted_indices[r][j]]
SortedTrain(r, j) == train_distances[r][sorted_indices[r][j]]

\* every consecutive pair of sorted manifold distances is at least margin apart
ConsecutiveGaps ==
    \A r \in 1..B : \A j \in 1..(K - 1) :
        /\ IsFin(SortedDist(r, j)) /\ IsFin(SortedDist(r, j + 1))
        /\ SortedDist(r, j + 1).v - SortedDist(r, j).v >= margin

\* C1: with the identity scale, a batch whose sorted manifold distances have
\* all consecutive gaps >= margin has loss exactly 0, and every diagonal
\* entry of the reduced matrix is 0.
C1_ZeroLossWhenRanked ==
    (Returned /\ scale_function = "identity" /\ margin >= 0 /\ ConsecutiveGaps)
        => /\ loss.k = "fin" /\ loss.num = 0
           /\ \A r \in 1..B : \A j \in 1..K :
                 masked_diff_matrix[r][j][j] = Fin(0)

C1_Witness ==
    /\ Returned /\ scale_function = "identity" /\ margin > 0 /\ ConsecutiveGaps
    /\ K = 3
    /\ manifold_dists[1] # <<Fin(5), Fin(10), Fin(40)>>
    /\ \A a, b \in 1..K : a # b => train_distances[1][a] # train_distances[1][b]
    /\ loss.num = 0

\* some vertex has neighbours a, b with gt(a) < gt(b) but manifold(a) >= manifold(b)
InvertedPair ==
    \E r \in 1..B : \E a, b \in 1..K :
        /\ train_distances[r][a] < train_distances[r][b]
        /\ IsFin(manifold_dists[r][a]) /\ IsFin(manifold_dists[r][b])
        /\ manifold_dists[r][a].v >= manifold_dists[r][b].v

AllFinite ==
    \A r \in 1..B : \A j \in 1..K : IsFin(manifold_dists[r][j])

\* C2: with the identity scale, finite distances and margin > 0, an inverted
\* pair makes the loss strictly positive.
C2_PositiveLossWhenInverted ==
    (Returned /\ scale_function = "identity" /\ margin > 0 /\ AllFinite
        /\ InvertedPair)
        => loss.k = "fin" /\ loss.num > 0

C2_Witness ==
    /\ Returned /\ scale_function = "identity" /\ margin > 0 /\ AllFinite
    /\ InvertedPair
    /\ B = 2
    /\ loss.num > 0

\* contribution of the ordered pair (a, b) of neighbours of vertex r
PairTerm(r, a, b) ==
    relu(ExtAdd(ExtSub(ApplyScale(scale_function, manifold_dists[r][a]),
                       ApplyScale(scale_function, manifold_dists[r][b])),
                Fin(margin)))

RECURSIVE SumPairs(_, _)
SumPairs(r, n) ==
    IF n = 0 THEN 0
    ELSE LET a == ((n - 1) \div K) + 1
             b == ((n - 1) % K) + 1
         IN  SumPairs(r, n - 1)
               + (IF train_distances[r][a] < train_distances[r][b]
                  THEN PairTerm(r, a, b).v ELSE 0)

RECURSIVE SumRows(_)
SumRows(r) == IF r = 0 THEN 0 ELSE SumRows(r - 1) + SumPairs(r, K * K)

\* C3: the entry of every pair of tied neighbours is 0 after the masking and
\* in the reduced matrix, and the loss is the batch mean of the terms of the
\* pairs with strictly different ground-truth distances only, so the
\* manifold distances of tied neighbours relative to each other do not
\* enter it.
C3_TiesNeverContribute ==
    (Returned /\ SameShape /\ AllFinite)
        => /\ \A r \in 1..B : \A j, l \in 1..K :
                 SortedTrain(r, j) = SortedTrain(r, l)
                    => /\ WhereMatrix(manifold_dists, train_distances,
                                      sorted_indices, margin,
                                      scale_function, r, j, l) = Fin(0)
                       /\ masked_diff_matrix[r][j][l] = Fin(0)
           /\ loss.k = "fin"
           /\ loss.num * B = SumRows(B) * loss.den

\* two tied neighbours whose manifold distances differ by more than the margin
C3_Witness ==
    /\ Returned /\ SameShape /\ AllFinite /\ margin = 1
    /\ \E r \in 1..B : \E a, b \in 1..K :
          /\ a # b
          /\ train_distances[r][a] = train_distances[r][b]
          /\ manifold_dists[r][a].v > manifold_dists[r][b].v + margin
          /\ \E c \in 1..K : train_distances[r][c] < train_distances[r][a]
    /\ loss.num > 0

ExampleBatch ==
    /\ manifold_dists = <<<<Fin(10), Fin(40), Fin(5)>>>>
    /\ train_distances = <<<<1, 2, 2>>>>
    /\ margin = 1
    /\ scale_function = "identity"

\* C4: ground-truth [1, 2, 2], manifold [0.1, 0.4, 0.05], margin 0.01 and the
\* identity scale give the loss 0.06 for either order of the tied neighbours.
C4_ExampleLoss ==
    (pc = "done" /\ ExampleBatch)
        => loss.status = "ok" /\ loss.k = "fin" /\ loss.num = 6 /\ loss.den = 1

C4_Witness ==
    /\ pc = "done" /\ ExampleBatch
    /\ sorted_indices = <<<<1, 3, 2>>>>
    /\ loss.num = 6

\* C5: the returned loss is finite and non-negative, and every NaN or
\* infinite entry left by relu is 0 in the matrix that is reduced.
C5_LossFinite ==
    (Returned /\ SameShape)
        => /\ loss.k = "fin" /\ loss.num >= 0
           /\ \A r \in 1..B : \A j, l \in 1..K :
                 LET e == ReluMatrix(manifold_dists, train_distances,
                                     sorted_indices, margin,
                                     scale_function, r, j, l)
                 IN  /\ IsFin(masked_diff_matrix[r][j][l])
                     /\ (IsNan(e) \/ IsInf(e))
                           => masked_diff_matrix[r][j][l] = Fin(0)

\* a logarithmic scale on a distance of exactly zero, leaving both a NaN and
\* an infinite entry after relu
C5_Witness ==
    /\ Returned /\ SameShape /\ scale_function = "log"
    /\ \E r \in 1..B : \E j \in 1..K : manifold_dists[r][j] = Fin(0)
    /\ \E r \in 1..B : \E j, l \in 1..K :
          IsNan(ReluMatrix(manifold_dists, train_distances, sorted_indices,
                           margin, scale_function, r, j, l))
    /\ \E r \in 1..B : \E j, l \in 1..K :
          IsInf(ReluMatrix(manifold_dists, train_distances, sorted_indices,
                           margin, scale_function, r, j, l))
    /\ loss.k = "fin"

\* C6: a call whose train_distances shape differs from the manifold-distance
\* shape in either dimension ends in a shape-mismatch error.
C6_ShapeMismatchFails ==
    (pc = "done" /\ ~SameShape) => loss.status = "shape_error"

(***************************************************************************)
(* Properties of SphericalManifold.                                        *)
(***************************************************************************)
\* C7: proj and retr return what proj_ and retr_ leave in a copy of x, with
\* and without indices.
C7_NonMutatingMatchesInplace ==
    /\ op = "proj" => ret = proj_(x_before, indices)
    /\ op = "retr" => ret = retr_(x_before, u, indices)

IsUnit(v) == Inner(v, v) = R(1, 1)
IsNonZero(v) == LET q == Inner(v, v) IN IsFin(q) /\ q.n # 0

\* the rows the last call acted on
Acted(r) == indices = None \/ Selected(indices, r)

\* C8: projecting a projected non-zero point again changes nothing, and a
\* point of unit norm is left as it is, for proj and for proj_.
C8_ProjIdempotent ==
    /\ (op = "proj" /\ indices = None
          /\ \A r \in 1..Len(x_before) : IsNonZero(x_before[r]))
          => /\ proj(ret, None) = ret
             /\ (\A r \in 1..Len(x_before) : IsUnit(x_before[r]))
                   => ret = x_before
    /\ (op = "proj_"
          /\ \A r \in 1..Len(x_before) : Acted(r) => IsNonZero(x_before[r]))
          => /\ proj_(x, indices) = x
             /\ (\A r \in 1..Len(x_before) : Acted(r) => IsUnit(x_before[r]))
                   => x = x_before

C8_Witness ==
    /\ op = "proj" /\ indices = None
    /\ Len(x_before) = 2
    /\ x_before[1] = V2(R(3, 1), R(4, 1))
    /\ IsUnit(x_before[2])
    /\ ret[1] = V2(R(3, 5), R(4, 5))
    /\ ret[2] = x_before[2]

DistDone == pc = "done" /\ dist_x # <<>>

\* C9: for unit vectors dist(x, y) = dist(y, x), and dist(x, x) = 0.
C9_DistSymmetricZero ==
    (DistDone /\ IsUnit(dist_x) /\ IsUnit(dist_y))
        => /\ dist_ret = dist(dist_y, dist_x)
           /\ dist_x = dist_y => dist_ret = Fin(0)

C9_Witness ==
    /\ DistDone /\ IsUnit(dist_x) /\ dist_y = dist_x
    /\ dist_x = V2(R(3, 5), R(4, 5))
    /\ dist_ret = Fin(0)

\* C10: dist returns a finite angle in [0, pi] for every pair of vectors,
\* also when their inner product lies outside [-1, 1].
C10_DistInRange ==
    DistDone => IsFin(dist_ret) /\ dist_ret.v >= 0 /\ dist_ret.v <= PiFP

C10_Witness ==
    /\ DistDone
    /\ ~RLeq(Inner(dist_x, dist_y), R(1, 1))
    /\ dist_ret = Fin(0)

(***************************************************************************)
(* Properties of GradClippedACos.                                          *)
(***************************************************************************)
AcosDone == pc = "done" /\ ~IsNan(acos_x)

\* C11: forward returns the inverse cosine of the input clamped to exactly
\* [-1, 1] (0 at and above 1, pi at and below -1), and for every real input
\* the backward result is finite with magnitude at most
\* |grad_output| / sqrt(EPSILON).
C11_BackwardBounded ==
    AcosDone =>
        /\ acos_saved[1] = Clamp(acos_x, R(-1, 1), R(1, 1))
        /\ acos_ret = TorchAcos(acos_saved[1])
        /\ RLeq(R(1, 1), acos_x) => acos_ret = Fin(0)
        /\ RLeq(acos_x, R(-1, 1)) => acos_ret = Fin(PiFP)
        /\ IsFin(acos_grad)
        /\ Abs(acos_grad.v) * ISqrt(EPSILON_NUM)
              <= Abs(grad_output.v) * ISqrt(EPSILON_DEN)

C11_Witness ==
    /\ AcosDone
    /\ acos_x = R(1, 1) /\ grad_output = Fin(100)
    /\ acos_ret = Fin(0)
    /\ IsFin(acos_grad) /\ acos_grad.v < -7000

(***************************************************************************)
(* Properties of SphericalManifold.exp.                                    *)
(***************************************************************************)
ExpDone == op = "exp"
RowFinite(v) == \A i \in 1..Len(v) : ~IsNan(v[i])
Small(v) == RLeq(Norm(v), R(EPSILON_NUM, EPSILON_DEN))
\* the squared norm of the row is within 4 / FP of 1
NearUnit(v) ==
    Abs(Scaled(v[1]) * Scaled(v[1]) + Scaled(v[2]) * Scaled(v[2]) - FP * FP)
        <= 4 * FP

\* C12: exp selects per batch element: a row with ||u|| <= EPSILON (zero
\* included) gets exactly proj(x + u), finite when x is on the sphere; a row
\* with ||u|| > EPSILON gets x*cos(||u||) + u*sin(||u||)/||u||, which lies
\* on the sphere when x does and u is tangent at x.
C12_ExpSelectsPerElement ==
    ExpDone =>
        /\ Len(ret) = Len(x) /\ x = x_before
        /\ \A r \in 1..Len(x) :
              LET moved == VecAdd(x[r], u[r])
              IN  /\ Small(u[r]) =>
                        /\ ret[r] = VecDiv(moved, Norm(moved))
                        /\ IsUnit(x[r]) => RowFinite(ret[r]) /\ IsUnit(ret[r])
                  /\ ~Small(u[r]) =>
                        /\ \A i \in 1..2 :
                              ret[r][i] =
                                RAdd(RMul(x[r][i], TorchCos(u[r])),
                                     RDiv(RMul(u[r][i], TorchSin(u[r])),
                                          Norm(u[r])))
                        /\ RowFinite(ret[r])
                        /\ (IsUnit(x[r]) /\ Inner(x[r], u[r]) = R(0, 1)) =>
                              NearUnit(ret[r])

\* one batch whose rows take different branches: the first moves along the
\* geodesic, the second has ||u|| = EPSILON exactly and is retracted
C12_Witness ==
    /\ ExpDone /\ Len(x) = 2
    /\ IsUnit(x[1]) /\ IsUnit(x[2])
    /\ ~Small(u[1]) /\ Inner(x[1], u[1]) = R(0, 1) /\ ret[1] # x[1]
    /\ Norm(u[2]) = R(EPSILON_NUM, EPSILON_DEN) /\ ret[2] = x[2]

(***************************************************************************)
(* Properties of closest_pd_matrix.                                        *)
(***************************************************************************)
PdDone == pc = "done" /\ Len(pd_ret) = Len(pd_matrix)
Symmetric(m) == m[1][2] = m[2][1]
IsPsd(m) == Symeig(m)[1] >= 0

\* C13: every returned matrix is symmetric with eigenvalues >= 0, and an
\* input that is already positive semidefinite is returned unchanged.
C13_ClosestPdKeepsPsd ==
    PdDone =>
        \A n \in 1..Len(pd_matrix) :
            /\ Symmetric(pd_ret[n]) /\ IsPsd(pd_ret[n])
            /\ IsPsd(pd_matrix[n]) => pd_ret[n] = pd_matrix[n]

(***************************************************************************)
(* Properties of riemannian_divergence.                                    *)
(***************************************************************************)
DivDone == pc = "done" /\ Len(div_ret) = Len(matrix_a)
Positive(a) == IsFin(a) /\ a.n > 0
\* symmetric positive definite: positive corner and positive determinant
IsSpd(m) ==
    /\ m[1][2] = m[2][1] /\ Positive(m[1][1])
    /\ Positive(RAdd(RMul(m[1][1], m[2][2]),
                     RMul(R(-1, 1), RMul(m[1][2], m[2][1]))))

\* C14: the divergence of every sample is non-negative, it is 0 for a
\* sample whose two matrices are the same symmetric positive definite
\* matrix, and the isometric loss is 0 when that is so for every sample.
C14_DivergenceZeroOnEqual ==
    DivDone =>
        /\ \A n \in 1..Len(matrix_a) :
              /\ IsFin(div_ret[n]) /\ div_ret[n].v >= 0
              /\ (IsSpd(matrix_a[n]) /\ matrix_b[n] = matrix_a[n])
                    => div_ret[n] = Fin(0)
        /\ IsFin(div_loss) /\ div_loss.num >= 0
        /\ (\A n \in 1..Len(matrix_a) :
                IsSpd(matrix_a[n]) /\ matrix_b[n] = matrix_a[n])
              => div_loss.num = 0

\* a batch of two different non-diagonal positive definite matrices, each
\* compared with itself
C14_Witness ==
    /\ DivDone /\ Len(matrix_a) = 2
    /\ matrix_a[1] # matrix_a[2] /\ matrix_b = matrix_a
    /\ \A n \in 1..2 : IsSpd(matrix_a[n]) /\ matrix_a[n][1][2] # R(0, 1)
    /\ div_loss.num = 0

(***************************************************************************)
(* Frame properties of the losses and the non-in-place manifold functions. *)
(***************************************************************************)
\* the storages that existed when the call began
Given == 1..MaxStorages

Retained ==
    Cardinality({c \in 1..Len(proj_eigenval[1]) : proj_eigenval[1][c] > 1})

\* C16: in conformal mode the two flattened matrices handed to the cosine
\* similarity both have per-sample size r * r, r the number of retained
\* eigenvectors, also when r is smaller than the ambient dimension.
C16_FlattenedSameSize ==
    (pc = "done" /\ ~isometric /\ metric_status # "index_error")
        => /\ flattened[1] = Retained * Retained
           /\ flattened[2] = Retained * Retained

(***************************************************************************)
(* Properties of manifold_dist_loss_relu_sum.                              *)
(***************************************************************************)
\* violation of the pair of sorted positions i < j of row r
Violation(r, i, j) ==
    IF SortedTrain(r, i) = SortedTrain(r, j) THEN 0
    ELSE relu(ExtAdd(ExtSub(LogEps(SortedDist(r, i)), LogEps(SortedDist(r, j))),
                     Fin(margin))).v

\* weight of sorted position i (from 1), over discount_factor.d^(K-1):
\* discount_factor^(i-1)
Weight(i) == Pow(discount_factor.n, i - 1) * Pow(discount_factor.d, K - i)

RECURSIVE WeightedPairs(_, _)
WeightedPairs(r, n) ==
    IF n = 0 THEN 0
    ELSE LET i == ((n - 1) \div K) + 1
             j == ((n - 1) % K) + 1
         IN  WeightedPairs(r, n - 1)
               + (IF i < j THEN Violation(r, i, j) * Weight(i) ELSE 0)

RECURSIVE WeightedRows(_)
WeightedRows(r) ==
    IF r = 0 THEN 0 ELSE WeightedRows(r - 1) + WeightedPairs(r, K * K)

\* C17: the loss is the batch mean of the row sums, in which the violation
\* of the pair of sorted positions i < j (from 0) is weighted by
\* discount_factor^i / k; with 0 < discount_factor < 1 an equal violation
\* weighs strictly more when its nearer neighbour has the lower rank.
C17_DiscountByRank ==
    Returned =>
        /\ loss.k = "fin"
        /\ LET den == B * K * Pow(discount_factor.d, K - 1)
                g == Gcd(WeightedRows(B), den)
            IN  loss.num = WeightedRows(B) \div g /\ loss.den = den \div g
        /\ \A r \in 1..B : \A i \in 1..K :
              masked_diff_matrix[r][i].v
                = Weight(i) * SumSeq([j \in 1..K |->
                                 Fin(IF i < j THEN Violation(r, i, j) ELSE 0)],
                             K).v
        /\ \A r \in 1..B : \A i, j, i2, j2 \in 1..K :
              (/\ 0 < discount_factor.n /\ discount_factor.n < discount_factor.d
               /\ i < j /\ i2 < j2 /\ i < i2
               /\ Violation(r, i, j) = Violation(r, i2, j2)
               /\ Violation(r, i, j) > 0)
                => Violation(r, i, j) * Weight(i)
                      > Violation(r, i2, j2) * Weight(i2)

\* a row of three neighbours with distinct ground-truth distances, whose
\* pairs (0, 1) and (1, 2) are violated by the same positive amount
C17_Witness ==
    /\ Returned /\ K = 3
    /\ SortedTrain(1, 1) < SortedTrain(1, 2)
    /\ SortedTrain(1, 2) < SortedTrain(1, 3)
    /\ Violation(1, 1, 2) > 0
    /\ Violation(1, 1, 2) = Violation(1, 2, 3)
    /\ loss.num > 0

\* the margin loss does not depend on how argsort orders tied neighbours
MarginLossTieFree ==
    \A si \in ArgSort(train_distances) :
        graph_manifold_margin_loss(manifold_dists, train_distances, si, margin,
                                   "identity")
          = graph_manifold_margin_loss(manifold_dists, train_distances,
                                       sorted_indices, margin, "identity")

\* C18: for the same embeddings and train_distances, both rank-margin
\* losses return the same value for every order in which argsort may place
\* neighbours of equal ground-truth distance.
C18_TieOrderIrrelevant ==
    Returned =>
        /\ MarginLossTieFree
        /\ \A si \in ArgSort(train_distances) :
              manifold_dist_loss_relu_sum(manifold_dists, train_distances, si,
                                          margin, discount_factor) = loss

(***************************************************************************)
(* Properties of GraphEmbedder.retrieve_nodes.                             *)
(***************************************************************************)
\* the ranges requested so far are the consecutive blocks, in order
ConsecutiveRanges ==
    \A b \in 1..Len(requested) :
        /\ requested[b][1] = (b - 1) * block_size
        /\ requested[b][2] = Min(b * block_size, total_n_nodes)
        /\ requested[b][1] < requested[b][2]
        /\ requested[b][2] - requested[b][1] <= block_size

\* C19: the requested ranges are [i*B, min((i+1)*B, n)) in ascending order,
\* none empty or longer than B, and for every n >= 0 the call returns a
\* matrix of n rows whose row r is the embedding of node r, each node
\* embedded exactly once.
C19_RetrieveAllNodes ==
    /\ ConsecutiveRanges
    /\ pc = "done" =>
          /\ Len(requested) = (total_n_nodes + block_size - 1) \div block_size
          /\ retrieved.status = "ok"
          /\ Len(retrieved.rows) = total_n_nodes
          /\ \A r \in 1..Len(retrieved.rows) :
                retrieved.rows[r] = Embedding(r - 1)
          /\ \A id \in 0..(total_n_nodes - 1) :
                Cardinality({b \in 1..Len(requested) :
                    requested[b][1] <= id /\ id < requested[b][2]}) = 1
====
